---- MODULE Spec2Model ----
(***************************************************************************)
(* Streak Consistency Engine of DangerRohit84/Streaker.                    *)
(*                                                                         *)
(* Calendar days are integers (the 'en-CA' date key YYYY-MM-DD orders as   *)
(* the calendar does, so string comparison of keys is integer comparison   *)
(* of day numbers; Date.setDate(getDate() - 1) is d - 1).  The clock stays *)
(* in 0..MaxDay, the evaluators may walk below day 0.                      *)
(***************************************************************************)
EXTENDS Integers, Sequences, FiniteSets, TLC

(***************************************************************************)
(* Bounds of the model.                                                    *)
(***************************************************************************)
MaxDay == 3
MaxLen == 3
MaxInit == 2
MaxEvents == 1
MaxLoads == 2
MaxHandlers == 1
MaxToggles == 2
MaxWalkLen == 1
MaxClicks == 4
MaxDefs == 2
MaxPurges == 2

(***************************************************************************)
(* Program constants.                                                      *)
(***************************************************************************)
SafetyLimit == 3650

Days == 0..MaxDay

\* failureDate: string | null
null == <<>>
Some(d) == <<d>>

VARIABLES
  \* the evaluators on their own (SpecEval)
  history,          \* the Task[] handed to the evaluator
  res,              \* what the evaluator returned
  epc,              \* where the evaluator run stands
  purgedAt,         \* the breach date the history was purged for
  \* the clock and the user
  today,            \* getLocalDateStr(): the clock's date key
  joinDate,         \* user.joinDate.split('T')[0]
  \* a dashboard session and its backend (SpecV9, SpecV10)
  version,          \* which Dashboard the session runs: "V9" or "V10"
  store,            \* the backend's Task collection, in insertion order
  dbUser,           \* the backend's User document (the streak fields)
  user,             \* the App's user state, the Dashboard's user prop
  tasks,            \* useState tasks
  allHistoryTasks,  \* useState allHistoryTasks
  isLoading,        \* useState isLoading
  lastCheckedDate,  \* useRef lastCheckedDate
  loads,            \* loadData calls in flight
  handlers,         \* addTask, toggleTask, deleteTask calls in flight
  nextId,           \* ids crypto.randomUUID() has handed out so far
  events,           \* user events so far
  \* what the session did last (read by the properties only)
  lastLoad,         \* the last loadData that ran to its end
  lastSync,         \* the last syncStreakToCloud / syncStateToCloud call
  \* the network between the session and the backend
  lossy,            \* whether a saveUser or saveTask request can fail
  lastWrite,        \* on a lossy network: the writes that failed in the last
                    \* step of a handler or loadData, and the toast it triggered
  \* the log-based dashboard (SpecV13)
  mountUser         \* the user prop of the render whose effect with deps
                    \* [user.id] set the timer and the listeners up

evalVars == <<history, res, epc, purgedAt>>
sessVars == <<version, store, dbUser, user, tasks, allHistoryTasks,
              isLoading, lastCheckedDate, loads, handlers, nextId, events,
              lastLoad, lastSync, lossy, lastWrite, mountUser>>
vars == <<evalVars, today, joinDate, sessVars>>

(***************************************************************************)
(* Task records (types.ts).                                                *)
(***************************************************************************)
\* reminderTime?: string, undefined when no reminder is set
noReminder == "undefined"

Task(id, userId, title, date, completed, isRecurring) ==
  [id |-> id, userId |-> userId, title |-> title, date |-> date,
   completed |-> completed, isRecurring |-> isRecurring,
   reminderTime |-> noReminder]

\* crypto.randomUUID(): the n-th generated id
uuid(n) == <<"uuid", n, 0>>
\* `virtual-${template.id}-${today}`
virtualIdWithoutDay(templateId, td) == <<"virtual", templateId[2], 0>>

virtualId(templateId, td) == <<"virtual", templateId[2], td>>
\* taskId.startsWith('virtual-')
isVirtualId(id) == id[1] = "virtual"

(***************************************************************************)
(* The evaluators.                                                         *)
(***************************************************************************)
\* tasksByDate[dateStr] || []
dayTasks(h, d) == SelectSeq(h, LAMBDA t : t.date = d)

\* a day judged by its first record only
isDayPerfectByFirstRecord(h, d) ==
  IF Len(dayTasks(h, d)) = 0 THEN FALSE
  ELSE dayTasks(h, d)[1].completed

isDayPerfect(h, d) ==
  IF Len(dayTasks(h, d)) = 0 THEN FALSE
  ELSE \A i \in 1..Len(dayTasks(h, d)) : dayTasks(h, d)[i].completed

\* V9: the while (safety < 3650) loop
RECURSIVE walkV9(_, _, _, _, _)
walkV9(h, jd, checkDate, streak, safety) ==
  IF safety >= SafetyLimit THEN [streak |-> streak, failureDate |-> null]
  ELSE IF isDayPerfect(h, checkDate)
       THEN walkV9(h, jd, checkDate - 1, streak + 1, safety + 1)
       ELSE IF checkDate < jd
            THEN [streak |-> streak, failureDate |-> null]
            ELSE [streak |-> streak, failureDate |-> Some(checkDate)]

analyzeStreakAndFailuresV9StreakFromOne(h, td, jd) ==
  IF Len(h) = 0 THEN [streak |-> 0, failureDate |-> null]
  ELSE IF isDayPerfect(h, td) \/ isDayPerfect(h, td - 1)
       THEN walkV9(h, jd, td - 1, 1, 0)
       ELSE [streak |-> 0, failureDate |-> Some(td - 1)]

analyzeStreakAndFailuresV9(h, td, jd) ==
  IF Len(h) = 0 THEN [streak |-> 0, failureDate |-> null]
  ELSE LET yesterday == td - 1
           todayIsPerfect == isDayPerfect(h, td)
           yesterdayIsPerfect == isDayPerfect(h, yesterday)
       IN  IF todayIsPerfect THEN walkV9(h, jd, yesterday, 1, 0)
           ELSE IF yesterdayIsPerfect THEN walkV9(h, jd, yesterday, 0, 0)
           ELSE [streak |-> 0, failureDate |-> Some(yesterday)]

\* a walk that takes a day without records for a failed day
RECURSIVE walkV10GapIsFailure(_, _, _, _, _, _)
walkV10GapIsFailure(h, td, jd, checkDate, streak, newLog) ==
  IF ~(checkDate >= jd)
  THEN [streak |-> streak, failureDate |-> null, newLog |-> newLog]
  ELSE IF checkDate = td
       THEN IF isDayPerfect(h, checkDate)
            THEN walkV10GapIsFailure(h, td, jd, checkDate - 1, 1, <<checkDate>> \o newLog)
            ELSE walkV10GapIsFailure(h, td, jd, checkDate - 1, streak, newLog)
       ELSE IF isDayPerfect(h, checkDate)
            THEN walkV10GapIsFailure(h, td, jd, checkDate - 1, streak + 1,
                                     <<checkDate>> \o newLog)
            ELSE [streak |-> 0, failureDate |-> Some(checkDate), newLog |-> <<>>]

\* V10 (nuclear): the while (getLocalDateStr(checkDate) >= joinDateStr) loop
RECURSIVE walkV10(_, _, _, _, _, _)
walkV10(h, td, jd, checkDate, streak, newLog) ==
  IF ~(checkDate >= jd)
  THEN [streak |-> streak, failureDate |-> null, newLog |-> newLog]
  ELSE IF checkDate = td
       THEN IF isDayPerfect(h, checkDate)
            THEN walkV10(h, td, jd, checkDate - 1, 1, <<checkDate>> \o newLog)
            ELSE walkV10(h, td, jd, checkDate - 1, streak, newLog)
       ELSE IF Len(dayTasks(h, checkDate)) > 0
            THEN IF isDayPerfect(h, checkDate)
                 THEN walkV10(h, td, jd, checkDate - 1, streak + 1,
                              <<checkDate>> \o newLog)
                 ELSE [streak |-> 0, failureDate |-> Some(checkDate),
                       newLog |-> <<>>]
            ELSE walkV10(h, td, jd, checkDate - 1, streak, newLog)

analyzeStreakAndFailuresV10AfterJoinDay(h, td, jd) ==
  IF Len(h) = 0 THEN [streak |-> 0, failureDate |-> null, newLog |-> <<>>]
  ELSE walkV10(h, td, jd + 1, td, 0, <<>>)

analyzeStreakAndFailuresV10(h, td, jd) ==
  IF Len(h) = 0 THEN [streak |-> 0, failureDate |-> null, newLog |-> <<>>]
  ELSE walkV10(h, td, jd, td, 0, <<>>)

\* what deleteTaskRecordsAfter(userId, date) is specified to leave
recordsUpTo(h, b) == SelectSeq(h, LAMBDA t : ~(t.date > b))

(***************************************************************************)
(* Sequences as the arrays of the code.                                    *)
(***************************************************************************)
removeAt(s, i) == [j \in 1..(Len(s) - 1) |-> IF j < i THEN s[j] ELSE s[j + 1]]

\* Array.prototype.find
hasId(s, id) == \E i \in 1..Len(s) : s[i].id = id
findById(s, id) == s[CHOOSE i \in 1..Len(s) : s[i].id = id /\ \A j \in 1..(i - 1) : s[j].id # id]

(***************************************************************************)
(* The backend: the Task collection and its routes.                        *)
(***************************************************************************)
\* GET /api/tasks?userId=: Task.find({ userId })
getAllTasks(st, userId) == SelectSeq(st, LAMBDA t : t.userId = userId)

\* an insert in place of the upsert: a record per request
upsertTaskInsertOnly(st, data) == Append(st, data)

\* POST /api/tasks: Task.findOneAndUpdate({ id: data.id }, data, { upsert: true })
upsertTask(st, data) ==
  IF hasId(st, data.id)
  THEN LET k == CHOOSE i \in 1..Len(st) : st[i].id = data.id /\ \A j \in 1..(i - 1) : st[j].id # data.id
       IN  [st EXCEPT ![k] = data]
  ELSE Append(st, data)

\* DELETE /api/tasks/:id: Task.deleteOne({ id: req.params.id })
deleteOne(st, id) ==
  IF hasId(st, id)
  THEN removeAt(st, CHOOSE i \in 1..Len(st) : st[i].id = id /\ \A j \in 1..(i - 1) : st[j].id # id)
  ELSE st

\* DELETE /api/tasks?title=&recurring=true: Task.deleteMany({ title, isRecurring: true })
deleteManyRecurring(st, title) ==
  SelectSeq(st, LAMBDA t : ~(t.title = title /\ t.isRecurring))

\* dbService.deleteTask(taskId, title, isRecurring) as the backend serves it
deleteTaskServed(st, taskId, title, isRecurring) ==
  IF isRecurring THEN deleteManyRecurring(st, title) ELSE deleteOne(st, taskId)

\* DELETE /api/tasks/purge?userId=&afterDate= has no route of its own: Express
\* hands it to DELETE /api/tasks/:id with req.params.id = "purge"
purgeRouteId == <<"purge", 0, 0>>
purgeTasksAfterDate(st, userId, afterDate) == deleteOne(st, purgeRouteId)

(***************************************************************************)
(* The Dashboard: evaluator by version, materializer, aggregate sync.      *)
(***************************************************************************)
analyze(ver, h, td, jd) ==
  IF ver = "V9"
  THEN analyzeStreakAndFailuresV9(h, td, jd) @@ [newLog |-> <<>>]
  ELSE analyzeStreakAndFailuresV10(h, td, jd)

\* loadData: whether the purge is issued for the evaluator's result
\* V9: if (failureDate) { if (history.filter(t => t.date > failureDate).length > 0) ...
\* V10: if (failureDate) ...
issuesPurgeOnlyWithLaterRecords(ver, h, r) ==
  /\ r.failureDate # null
  /\ Len(SelectSeq(h, LAMBDA t : t.date > r.failureDate[1])) > 0

issuesPurge(ver, h, r) ==
  /\ r.failureDate # null
  /\ ver = "V9" => Len(SelectSeq(h, LAMBDA t : t.date > r.failureDate[1])) > 0

\* loadData: ritualMap, one template per recurring title, in Map insertion order
RECURSIVE ritualMapLastWins(_, _, _)
ritualMapLastWins(recurringTemplates, i, map) ==
  IF i > Len(recurringTemplates) THEN map
  ELSE LET t == recurringTemplates[i]
           at == {k \in 1..Len(map) : map[k].title = t.title}
       IN  IF at = {}
           THEN ritualMapLastWins(recurringTemplates, i + 1, Append(map, t))
           ELSE LET k == CHOOSE x \in at : TRUE
                IN  IF t.date >= map[k].date
                    THEN ritualMapLastWins(recurringTemplates, i + 1, [map EXCEPT ![k] = t])
                    ELSE ritualMapLastWins(recurringTemplates, i + 1, map)

RECURSIVE ritualMap(_, _, _)
ritualMap(recurringTemplates, i, map) ==
  IF i > Len(recurringTemplates) THEN map
  ELSE LET t == recurringTemplates[i]
           at == {k \in 1..Len(map) : map[k].title = t.title}
       IN  IF at = {}
           THEN ritualMap(recurringTemplates, i + 1, Append(map, t))
           ELSE LET k == CHOOSE x \in at : TRUE
                IN  IF t.date > map[k].date
                    THEN ritualMap(recurringTemplates, i + 1, [map EXCEPT ![k] = t])
                    ELSE ritualMap(recurringTemplates, i + 1, map)

\* loadData: currentTasks = [...todaysActual, ...virtualRituals]
currentTasksKeepingShown(h, td) ==
  LET todaysActual == SelectSeq(h, LAMBDA t : t.date = td)
      recurringTemplates == SelectSeq(h, LAMBDA t : t.isRecurring)
      existingTitles == {todaysActual[i].title : i \in 1..Len(todaysActual)}
                          \cup {tasks[i].title : i \in 1..Len(tasks)}
      missing == SelectSeq(ritualMap(recurringTemplates, 1, <<>>),
                           LAMBDA t : t.title \notin existingTitles)
      virtualRituals ==
        [i \in 1..Len(missing) |->
           [missing[i] EXCEPT !.id = virtualId(missing[i].id, td),
                              !.date = td, !.completed = FALSE]]
  IN  todaysActual \o virtualRituals

currentTasks(h, td) ==
  LET todaysActual == SelectSeq(h, LAMBDA t : t.date = td)
      recurringTemplates == SelectSeq(h, LAMBDA t : t.isRecurring)
      existingTitles == {todaysActual[i].title : i \in 1..Len(todaysActual)}
      missing == SelectSeq(ritualMap(recurringTemplates, 1, <<>>),
                           LAMBDA t : t.title \notin existingTitles)
      virtualRituals ==
        [i \in 1..Len(missing) |->
           [missing[i] EXCEPT !.id = virtualId(missing[i].id, td),
                              !.date = td, !.completed = FALSE]]
  IN  todaysActual \o virtualRituals

\* syncStreakToCloud (V9) / syncStateToCloud (V10): whether it writes
syncAlwaysWrites(ver, u, newCount, newLog) == TRUE

syncWrites(ver, u, newCount, newLog) ==
  IF ver = "V9"
  THEN newCount # u.streakCount
  ELSE newLog # u.persistenceLog \/ newCount # u.streakCount

\* ... and the updatedUser it writes
updatedUser(ver, u, newCount, newLog, td) ==
  [streakCount |-> newCount,
   persistenceLog |-> IF ver = "V9" THEN u.persistenceLog ELSE newLog,
   lastCompletedDate |-> IF newCount > 0 THEN Some(td) ELSE u.lastCompletedDate]

\* PUT /api/users/:id: User.findOneAndUpdate({ id }, { $set: updateData })
saveUser(db, u) == u

\* App: onUpdateUser(updatedUser) replaces the user state
onUpdateUser(u) == u

noLoad == [failureDate |-> null, purgeArg |-> null, handed |-> 0, fresh |-> 0,
           sameDay |-> TRUE]
noSync == [newCount |-> 0, seenCount |-> 0, wrote |-> FALSE, saves |-> 0]
noUser == [streakCount |-> 0, persistenceLog |-> <<>>, lastCompletedDate |-> null]
noToast == "none"
noWrite == [failed |-> {}, toast |-> noToast]

\* the session variables where no session runs
SessionIdle ==
  /\ version = "none"
  /\ store = <<>>
  /\ dbUser = noUser
  /\ user = noUser
  /\ tasks = <<>>
  /\ allHistoryTasks = <<>>
  /\ isLoading = FALSE
  /\ lastCheckedDate = 0
  /\ loads = <<>>
  /\ handlers = <<>>
  /\ nextId = 0
  /\ events = 0
  /\ lastLoad = noLoad
  /\ lastSync = noSync
  /\ lossy = FALSE
  /\ lastWrite = noWrite
  /\ mountUser = noUser

(***************************************************************************)
(* SpecEval: the evaluators as pure functions of (history, today,          *)
(* joinDate), on every history of at most MaxLen records.                  *)
(***************************************************************************)
DayFlag == Days \X BOOLEAN

RECURSIVE SeqsUpTo(_, _)
SeqsUpTo(S, n) ==
  IF n = 0 THEN {<<>>}
  ELSE LET shorter == SeqsUpTo(S, n - 1)
       IN  shorter \cup {Append(s, x) : s \in {t \in shorter : Len(t) = n - 1}, x \in S}

mkHistory(s) ==
  [i \in 1..Len(s) |-> Task(uuid(i), "u1", "Read", s[i][1], s[i][2], FALSE)]

noResult == [streak |-> 0, failureDate |-> null]

InitEval ==
  /\ history \in {mkHistory(s) : s \in SeqsUpTo(DayFlag, MaxLen)}
  /\ today \in Days
  /\ joinDate \in Days
  /\ res = noResult
  /\ epc = "init"
  /\ purgedAt = null
  /\ SessionIdle

RunV9 ==
  /\ epc = "init"
  /\ res' = analyzeStreakAndFailuresV9(history, today, joinDate)
  /\ epc' = "v9"
  /\ UNCHANGED <<history, today, joinDate, purgedAt, sessVars>>

RunV10 ==
  /\ epc = "init"
  /\ res' = analyzeStreakAndFailuresV10(history, today, joinDate)
  /\ epc' = "v10"
  /\ UNCHANGED <<history, today, joinDate, purgedAt, sessVars>>

\* the purge for the breach date the V9 evaluator reported, as specified
PurgeAfterBreach ==
  /\ epc = "v9"
  /\ res.failureDate # null
  /\ history' = recordsUpTo(history, res.failureDate[1])
  /\ purgedAt' = res.failureDate
  /\ epc' = "purged"
  /\ UNCHANGED <<today, joinDate, res, sessVars>>

\* the clock moves on before the next evaluation
LaterToday ==
  /\ epc = "purged"
  /\ today < MaxDay
  /\ today' = today + 1
  /\ UNCHANGED <<history, joinDate, res, epc, purgedAt, sessVars>>

ReRunV9 ==
  /\ epc = "purged"
  /\ today > purgedAt[1]
  /\ res' = analyzeStreakAndFailuresV9(history, today, joinDate)
  /\ epc' = "rerun"
  /\ UNCHANGED <<history, today, joinDate, purgedAt, sessVars>>

NextEval == RunV9 \/ RunV10 \/ PurgeAfterBreach \/ LaterToday \/ ReRunV9

SpecEval == InitEval /\ [][NextEval]_vars

(***************************************************************************)
(* SpecWalk: the evaluators' loops iteration by iteration.  res holds the  *)
(* locals of the run (streak, failureDate, newLog, checkDate, safety,      *)
(* gapFound) and the number of loop bodies executed so far.                *)
(***************************************************************************)
\* user.joinDate = "": split('T')[0] is "", which is below every date key.  The
\* walks are followed for SafetyLimit + 1 iterations, so a day they cannot
\* reach stands for it.
emptyJoinDate == 0 - (SafetyLimit + 2)

JoinDates == Days \cup {MaxDay + 1, emptyJoinDate}

noLocals == [streak |-> 0, failureDate |-> null, newLog |-> <<>>, checkDate |-> 0,
             safety |-> 0, gapFound |-> FALSE, iterations |-> 0]

InitWalk ==
  /\ history \in {mkHistory(s) : s \in SeqsUpTo(DayFlag, MaxWalkLen)}
  /\ today = MaxDay
  /\ joinDate \in JoinDates
  /\ res = noLocals
  /\ epc = "init"
  /\ purgedAt = null
  /\ SessionIdle

\* V10 down to the while
WalkV10Start ==
  /\ epc = "init"
  /\ res' = [noLocals EXCEPT !.checkDate = today]
  /\ epc' = IF Len(history) = 0 THEN "returnedV10" ELSE "whileV10"
  /\ UNCHANGED <<history, today, joinDate, purgedAt, sessVars>>

\* V10: the loop test and, when it holds, one run of the loop body; after the
\* loop, the return
WalkV10Step ==
  /\ epc = "whileV10"
  /\ res.iterations <= SafetyLimit
  /\ LET dStr == res.checkDate
         body == [res EXCEPT !.iterations = @ + 1]
         back == [body EXCEPT !.checkDate = @ - 1]
         out(l) == IF l.gapFound THEN [l EXCEPT !.streak = 0, !.newLog = <<>>]
                   ELSE [l EXCEPT !.failureDate = null]
     IN  IF ~(dStr >= joinDate)
         THEN res' = out(res) /\ epc' = "returnedV10"
         ELSE IF dStr = today
              THEN /\ res' = IF isDayPerfect(history, dStr)
                             THEN [back EXCEPT !.streak = 1, !.newLog = <<dStr>> \o @]
                             ELSE back
                   /\ epc' = "whileV10"
              ELSE IF Len(dayTasks(history, dStr)) > 0
                   THEN IF isDayPerfect(history, dStr)
                        THEN /\ res' = [back EXCEPT
                                          !.streak = IF res.gapFound THEN @ ELSE @ + 1,
                                          !.newLog = <<dStr>> \o @]
                             /\ epc' = "whileV10"
                        ELSE /\ res' = out([body EXCEPT !.failureDate = Some(dStr),
                                                        !.gapFound = TRUE])
                             /\ epc' = "returnedV10"
                   ELSE res' = back /\ epc' = "whileV10"
  /\ UNCHANGED <<history, today, joinDate, purgedAt, sessVars>>

\* V9 down to the while
WalkV9Start ==
  /\ epc = "init"
  /\ LET yesterday == today - 1
         todayIsPerfect == isDayPerfect(history, today)
         yesterdayIsPerfect == isDayPerfect(history, yesterday)
         locals == IF todayIsPerfect
                   THEN [noLocals EXCEPT !.streak = 1, !.checkDate = yesterday]
                   ELSE IF yesterdayIsPerfect
                        THEN [noLocals EXCEPT !.checkDate = yesterday]
                        ELSE [noLocals EXCEPT !.checkDate = today,
                                              !.failureDate = Some(yesterday)]
     IN  IF Len(history) = 0
         THEN res' = noLocals /\ epc' = "returnedV9"
         ELSE /\ res' = locals
              /\ epc' = IF locals.streak > 0 \/ yesterdayIsPerfect
                        THEN "whileV9" ELSE "returnedV9"
  /\ UNCHANGED <<history, today, joinDate, purgedAt, sessVars>>

\* V9: the loop test and, when it holds, one run of the loop body
WalkV9Step ==
  /\ epc = "whileV9"
  /\ res.iterations <= SafetyLimit
  /\ LET dStr == res.checkDate
         body == [res EXCEPT !.iterations = @ + 1]
     IN  IF ~(res.safety < SafetyLimit)
         THEN res' = res /\ epc' = "returnedV9"
         ELSE IF isDayPerfect(history, dStr)
              THEN /\ res' = [body EXCEPT !.streak = @ + 1, !.checkDate = @ - 1,
                                          !.safety = @ + 1]
                   /\ epc' = "whileV9"
              ELSE /\ res' = IF dStr < joinDate THEN body
                             ELSE [body EXCEPT !.failureDate = Some(dStr)]
                   /\ epc' = "returnedV9"
  /\ UNCHANGED <<history, today, joinDate, purgedAt, sessVars>>

NextWalk == WalkV10Start \/ WalkV10Step \/ WalkV9Start \/ WalkV9Step

SpecWalk == InitWalk /\ [][NextWalk]_vars

(***************************************************************************)
(* SpecMat: the materializer part of loadData as a pure function of        *)
(* (history, today), run twice on every history of at most MaxLen records  *)
(* dated on the last three days.                                           *)
(***************************************************************************)
ReminderTimes == {noReminder, "07:00"}

RitualRecord == [date : {MaxDay - 2, MaxDay - 1, MaxDay}, title : {"Read", "Meditate"},
                 isRecurring : BOOLEAN, reminderTime : ReminderTimes]

mkRituals(s) ==
  [i \in 1..Len(s) |->
     [Task(uuid(i), "u1", s[i].title, s[i].date, TRUE, s[i].isRecurring)
        EXCEPT !.reminderTime = s[i].reminderTime]]

InitMat ==
  /\ history \in {mkRituals(s) : s \in SeqsUpTo(RitualRecord, MaxLen)}
  /\ today = MaxDay
  /\ joinDate = 0
  /\ res = noResult
  /\ epc = "init"
  /\ purgedAt = null
  /\ SessionIdle

\* loadData from const today = getLocalDateStr() to setAllHistoryTasks(history)
Materialize ==
  /\ epc \in {"init", "once"}
  /\ tasks' = currentTasks(history, today)
  /\ allHistoryTasks' = history
  /\ epc' = IF epc = "init" THEN "once" ELSE "twice"
  /\ UNCHANGED <<history, res, purgedAt, today, joinDate, version, store, dbUser, user,
                 isLoading, lastCheckedDate, loads, handlers, nextId, events, lastLoad,
                 lastSync, lossy, lastWrite,
                 mountUser>>

NextMat == Materialize

SpecMat == InitMat /\ [][NextMat]_vars

(***************************************************************************)
(* SpecV9, SpecV10: one dashboard session of user "u1" against the         *)
(* backend.  A step is what runs between two awaits: a request is served   *)
(* and the code after its await runs.  A handler in flight keeps the       *)
(* user, tasks and allHistoryTasks of the render it was called in.         *)
(***************************************************************************)
Titles == {"Read", "Meditate"}
InitStreaks == {0, 1}
\* the session is opened on the day before the last day of the model
StartDay == MaxDay - 1

\* the records earlier sessions may have left for yesterday and today:
\* "Meditate" is the daily ritual; a record is created with the date of its day,
\* so the collection's insertion order is by date (and of the two orders of one
\* day's records one is taken: the one-off before the ritual)
InitRecord == {[date |-> d, title |-> t, completed |-> c] :
                 d \in {StartDay - 1, StartDay}, t \in Titles, c \in BOOLEAN}

mkStore(s) ==
  [i \in 1..Len(s) |->
     Task(uuid(i), "u1", s[i].title, s[i].date, s[i].completed, s[i].title = "Meditate")]

InitStores(td) ==
  {mkStore(s) : s \in {q \in SeqsUpTo({r \in InitRecord : r.date <= td}, MaxInit) :
                         \A i, j \in 1..Len(q) :
                           /\ (q[i].date = q[j].date /\ q[i].title = q[j].title) => i = j
                           /\ i < j => q[i].date <= q[j].date
                           /\ (i < j /\ q[i].date = q[j].date) => q[i].title = "Read"}}

\* what set a loadData off: the day and the user events at that moment, and the
\* purges issued for it so far
newTrigger == [day |-> today, ev |-> events, purges |-> 0]

\* loadData() called: setIsLoading(true), GET /api/tasks in flight
newLoad(u, trigger) ==
  [pc |-> "fetch1", user |-> u, res |-> noResult @@ [newLog |-> <<>>],
   purgeArg |-> null, evalDay |-> 0, trigger |-> trigger]

InitSessionOn(ver, canFail) ==
  /\ history = <<>>
  /\ res = noResult
  /\ epc = "off"
  /\ purgedAt = null
  /\ version = ver
  /\ today = StartDay
  /\ joinDate \in {0, today}
  /\ store \in InitStores(today)
  /\ user \in {[streakCount |-> n, persistenceLog |-> <<>>, lastCompletedDate |-> null] :
                 n \in InitStreaks}
  /\ dbUser = user
  /\ tasks = <<>>
  /\ allHistoryTasks = <<>>
  /\ isLoading = TRUE
  /\ lastCheckedDate = today
  /\ loads = <<newLoad(user, [day |-> StartDay, ev |-> 0, purges |-> 0])>>
  /\ handlers = <<>>
  /\ nextId = Len(store)
  /\ events = 0
  /\ lastLoad = noLoad
  /\ lastSync = noSync
  /\ lossy = canFail
  /\ lastWrite = noWrite
  /\ mountUser = noUser

InitSession(ver) == InitSessionOn(ver, FALSE)

\* what a saveUser or saveTask request can come to: TRUE when it is served
Outcomes == IF lossy THEN BOOLEAN ELSE {TRUE}

\* syncStreakToCloud: onUpdateUser(updatedUser) runs before the request; the catch
\* of a failed saveUser only logs "Sync deferred"
localUserAfterSaveRollsBack(prev, nu, ok) == IF ok THEN onUpdateUser(nu) ELSE prev

localUserAfterSave(prev, nu, ok) == onUpdateUser(nu)

\* syncStreakToCloud: the saveUser requests of one call
saveUserCalls(w, ok) == IF w THEN 1 ELSE 0

\* syncStreakToCloud(newCount) / syncStateToCloud(newCount, newLog) called with
\* the user u of the caller's render; a changed user prop re-creates loadData
\* and the effect on [loadData] calls it
syncToCloud(u, newCount, newLog, otherLoads, loadingAfter, trigger, taskFailed, toast) ==
  LET w == syncWrites(version, u, newCount, newLog)
      nu == updatedUser(version, u, newCount, newLog, today)
  IN  \E ok \in Outcomes :
        /\ lastSync' = [newCount |-> newCount, seenCount |-> u.streakCount, wrote |-> w,
                        saves |-> saveUserCalls(w, ok)]
        /\ lastWrite' = IF lossy
                        THEN [failed |-> (IF taskFailed THEN {"saveTask"} ELSE {})
                                           \cup (IF w /\ ~ok THEN {"saveUser"} ELSE {}),
                              toast |-> toast]
                        ELSE lastWrite
        /\ IF w
           THEN /\ Len(otherLoads) < MaxLoads
                /\ user' = localUserAfterSave(user, nu, ok)
                /\ dbUser' = IF ok THEN saveUser(dbUser, nu) ELSE dbUser
                /\ loads' = Append(otherLoads, newLoad(nu, trigger))
                /\ isLoading' = TRUE
           ELSE /\ UNCHANGED <<user, dbUser>>
                /\ loads' = otherLoads
                /\ isLoading' = loadingAfter

\* loadData from the materializer to its finally
finishLoad(i, h, r, purgeArg, evalDay) ==
  /\ tasks' = currentTasks(h, today)
  /\ allHistoryTasks' = h
  /\ lastLoad' = [failureDate |-> r.failureDate, purgeArg |-> purgeArg,
                  handed |-> r.streak,
                  fresh |-> analyze(version, h, today, joinDate).streak,
                  sameDay |-> (evalDay = today)]
  /\ syncToCloud(loads[i].user, r.streak, r.newLog, removeAt(loads, i), FALSE,
                 loads[i].trigger, FALSE, noToast)

\* loadData from the answer h of the first getAllTasks on: the evaluator runs
loadDataFetched(i, h) ==
  /\ loads[i].pc = "fetch1"
  /\ LET r == analyze(version, h, today, joinDate)
     IN  IF issuesPurge(version, h, r)
         THEN /\ loads' = [loads EXCEPT ![i].pc = "purge", ![i].res = r,
                                         ![i].purgeArg = r.failureDate,
                                         ![i].evalDay = today,
                                         ![i].trigger.purges =
                                           IF @ < MaxPurges THEN @ + 1 ELSE @]
              /\ UNCHANGED <<user, dbUser, tasks, allHistoryTasks, isLoading,
                             lastLoad, lastSync, lastWrite>>
         ELSE finishLoad(i, h, r, null, today)
  /\ UNCHANGED <<evalVars, today, joinDate, version, store, lastCheckedDate,
                 handlers, nextId, events, lossy,
                 mountUser>>

\* loadData: the first getAllTasks answers
LoadFetched(i) == loadDataFetched(i, getAllTasks(store, "u1"))

\* loadData: the backend serves the purge request
PurgeServed(i) ==
  /\ loads[i].pc = "purge"
  /\ store' = purgeTasksAfterDate(store, "u1", loads[i].purgeArg[1])
  /\ loads' = [loads EXCEPT ![i].pc = "fetch2"]
  /\ UNCHANGED <<evalVars, today, joinDate, version, dbUser, user, tasks,
                 allHistoryTasks, isLoading, lastCheckedDate, handlers, nextId, events,
                 lastLoad, lastSync, lossy, lastWrite,
                 mountUser>>

\* loadData from the answer h of the second getAllTasks on
loadDataRefetched(i, h) ==
  /\ loads[i].pc = "fetch2"
  /\ finishLoad(i, h, loads[i].res, loads[i].purgeArg, loads[i].evalDay)
  /\ UNCHANGED <<evalVars, today, joinDate, version, store, lastCheckedDate,
                 handlers, nextId, events, lossy,
                 mountUser>>

\* loadData: the second getAllTasks answers
LoadRefetched(i) == loadDataRefetched(i, getAllTasks(store, "u1"))

\* the clock reaches the next day
DateChange ==
  /\ version # "none"
  /\ today < MaxDay
  /\ today' = today + 1
  /\ UNCHANGED <<evalVars, joinDate, version, store, dbUser, user, tasks,
                 allHistoryTasks, isLoading, lastCheckedDate, loads, handlers, nextId,
                 events, lastLoad, lastSync, lossy, lastWrite,
                 mountUser>>

\* an interval whose callback calls loadData() at every tick
TimerTickWithoutDateTest ==
  /\ version # "none"
  /\ Len(loads) < MaxLoads
  /\ lastCheckedDate' = today
  /\ loads' = Append(loads, newLoad(user, newTrigger))
  /\ isLoading' = TRUE
  /\ UNCHANGED <<evalVars, today, joinDate, version, store, dbUser, user,
                 tasks, allHistoryTasks, handlers, nextId, events, lastLoad,
                 lastSync, lossy, lastWrite,
                 mountUser>>

\* the 15 s interval: if (now !== lastCheckedDate.current) { ...; loadData(); }
TimerTick ==
  /\ version # "none"
  /\ today # lastCheckedDate
  /\ Len(loads) < MaxLoads
  /\ lastCheckedDate' = today
  /\ loads' = Append(loads, newLoad(user, newTrigger))
  /\ isLoading' = TRUE
  /\ UNCHANGED <<evalVars, today, joinDate, version, store, dbUser, user,
                 tasks, allHistoryTasks, handlers, nextId, events, lastLoad,
                 lastSync, lossy, lastWrite,
                 mountUser>>

\* a user event can start: the dashboard is rendered (not the spinner)
CanClick ==
  /\ version # "none"
  /\ ~isLoading
  /\ events < MaxEvents
  /\ Len(handlers) < MaxHandlers

newHandler(kind, task, taskId, isVirtual, tasksSnap) ==
  [kind |-> kind, task |-> task, taskId |-> taskId, isVirtual |-> isVirtual,
   tasks |-> tasksSnap, hist |-> allHistoryTasks, user |-> user]

\* addTask up to await dbService.saveTask(newTask)
AddTaskStart(title, isRecurring) ==
  /\ CanClick
  /\ LET newTask == Task(uuid(nextId + 1), "u1", title, today, FALSE, isRecurring)
     IN  handlers' = Append(handlers, newHandler("add", newTask, newTask.id, FALSE, <<>>))
  /\ nextId' = nextId + 1
  /\ events' = events + 1
  /\ UNCHANGED <<evalVars, today, joinDate, version, store, dbUser, user,
                 tasks, allHistoryTasks, isLoading, lastCheckedDate, loads, lastLoad,
                 lastSync, lossy, lastWrite,
                 mountUser>>

\* addTask after the save
AddTaskSaved(i) ==
  /\ handlers[i].kind = "add"
  /\ LET hd == handlers[i]
         updatedHistory == Append(hd.hist, hd.task)
         r == analyze(version, updatedHistory, today, joinDate)
     IN  \E saved \in Outcomes :
           /\ store' = IF saved THEN upsertTask(store, hd.task) ELSE store
           /\ tasks' = Append(tasks, hd.task)
           /\ allHistoryTasks' = updatedHistory
           /\ syncToCloud(hd.user, r.streak, r.newLog, loads, isLoading, newTrigger,
                          ~saved, "Objective Locked")
  /\ handlers' = removeAt(handlers, i)
  /\ UNCHANGED <<evalVars, today, joinDate, version, lastCheckedDate, nextId,
                 events, lastLoad, lossy,
                 mountUser>>

\* toggleTask up to await dbService.saveTask(updated)
toggleTask(k) ==
  /\ k \in 1..Len(tasks)
  /\ LET taskId == tasks[k].id
         target == findById(tasks, taskId)
         isVirtual == isVirtualId(taskId)
         updated == [target EXCEPT !.completed = ~target.completed,
                                   !.id = IF isVirtual THEN uuid(nextId + 1) ELSE @]
     IN  /\ tasks' = [j \in 1..Len(tasks) |->
                         IF tasks[j].id = taskId THEN updated ELSE tasks[j]]
         /\ handlers' = Append(handlers, newHandler("toggle", updated, taskId, isVirtual, <<>>))
         /\ nextId' = IF isVirtual THEN nextId + 1 ELSE nextId
  /\ events' = events + 1
  /\ UNCHANGED <<evalVars, today, joinDate, version, store, dbUser, user,
                 allHistoryTasks, isLoading, lastCheckedDate, loads, lastLoad, lastSync,
                 lossy, lastWrite,
                 mountUser>>

ToggleTaskStart(k) == CanClick /\ toggleTask(k)

\* toggleTask after the save
ToggleTaskSaved(i) ==
  /\ handlers[i].kind = "toggle"
  /\ LET hd == handlers[i]
         updatedHistory ==
           IF hd.isVirtual THEN Append(hd.hist, hd.task)
           ELSE [j \in 1..Len(hd.hist) |->
                   IF hd.hist[j].id = hd.taskId THEN hd.task ELSE hd.hist[j]]
         r == analyze(version, updatedHistory, today, joinDate)
     IN  \E saved \in Outcomes :
           /\ store' = IF saved THEN upsertTask(store, hd.task) ELSE store
           /\ allHistoryTasks' = updatedHistory
           /\ syncToCloud(hd.user, r.streak, r.newLog, loads, isLoading, newTrigger,
                          ~saved, IF hd.task.completed THEN "Validated" ELSE noToast)
  /\ handlers' = removeAt(handlers, i)
  /\ UNCHANGED <<evalVars, today, joinDate, version, tasks, lastCheckedDate,
                 nextId, events, lastLoad, lossy,
                 mountUser>>

\* deleteTask of a virtual record: no request, the handler runs to its end
DeleteVirtualTask(k) ==
  /\ CanClick
  /\ k \in 1..Len(tasks)
  /\ isVirtualId(tasks[k].id)
  /\ LET task == tasks[k]
         remainingHistory == SelectSeq(allHistoryTasks, LAMBDA t : t.id # task.id)
         r == analyze(version, remainingHistory, today, joinDate)
     IN  /\ tasks' = SelectSeq(tasks, LAMBDA t : t.id # task.id)
         /\ allHistoryTasks' = remainingHistory
         /\ syncToCloud(user, r.streak, r.newLog, loads, isLoading,
                        [newTrigger EXCEPT !.ev = events + 1], FALSE, "Purged")
  /\ events' = events + 1
  /\ UNCHANGED <<evalVars, today, joinDate, version, store, lastCheckedDate,
                 handlers, nextId, lastLoad, lossy,
                 mountUser>>

\* deleteTask of a stored record up to await dbService.deleteTask(...)
DeleteTaskStart(k) ==
  /\ CanClick
  /\ k \in 1..Len(tasks)
  /\ ~isVirtualId(tasks[k].id)
  /\ handlers' = Append(handlers, newHandler("delete", tasks[k], tasks[k].id, FALSE, tasks))
  /\ events' = events + 1
  /\ UNCHANGED <<evalVars, today, joinDate, version, store, dbUser, user,
                 tasks, allHistoryTasks, isLoading, lastCheckedDate, loads, nextId,
                 lastLoad, lastSync, lossy, lastWrite,
                 mountUser>>

\* deleteTask after the backend served the delete
DeleteTaskServed(i) ==
  /\ handlers[i].kind = "delete"
  /\ LET hd == handlers[i]
         remainingHistory == SelectSeq(hd.hist, LAMBDA t : t.id # hd.task.id)
         r == analyze(version, remainingHistory, today, joinDate)
     IN  /\ store' = deleteTaskServed(store, hd.task.id, hd.task.title, hd.task.isRecurring)
         /\ tasks' = SelectSeq(hd.tasks, LAMBDA t : t.id # hd.task.id)
         /\ allHistoryTasks' = remainingHistory
         /\ syncToCloud(hd.user, r.streak, r.newLog, loads, isLoading, newTrigger,
                        FALSE, "Purged")
  /\ handlers' = removeAt(handlers, i)
  /\ UNCHANGED <<evalVars, today, joinDate, version, lastCheckedDate, nextId,
                 events, lastLoad, lossy,
                 mountUser>>

NextSession ==
  \/ \E i \in 1..Len(loads) : LoadFetched(i)
  \/ \E i \in 1..Len(loads) : PurgeServed(i)
  \/ \E i \in 1..Len(loads) : LoadRefetched(i)
  \/ DateChange
  \/ TimerTick
  \/ \E t \in Titles : AddTaskStart(t, t = "Meditate")
  \/ \E k \in 1..Len(tasks) : ToggleTaskStart(k)
  \/ \E k \in 1..Len(tasks) : DeleteVirtualTask(k)
  \/ \E k \in 1..Len(tasks) : DeleteTaskStart(k)
  \/ \E i \in 1..Len(handlers) : AddTaskSaved(i)
  \/ \E i \in 1..Len(handlers) : ToggleTaskSaved(i)
  \/ \E i \in 1..Len(handlers) : DeleteTaskServed(i)

SpecV9 == InitSession("V9") /\ [][NextSession]_vars
SpecV10 == InitSession("V10") /\ [][NextSession]_vars

\* the V9 session on a network that can lose saveUser and saveTask requests
\* (within one day: the clock stands still)
NextLossy ==
  \/ \E i \in 1..Len(loads) : LoadFetched(i)
  \/ \E i \in 1..Len(loads) : PurgeServed(i)
  \/ \E i \in 1..Len(loads) : LoadRefetched(i)
  \/ \E t \in Titles : AddTaskStart(t, t = "Meditate")
  \/ \E k \in 1..Len(tasks) : ToggleTaskStart(k)
  \/ \E k \in 1..Len(tasks) : DeleteVirtualTask(k)
  \/ \E k \in 1..Len(tasks) : DeleteTaskStart(k)
  \/ \E i \in 1..Len(handlers) : AddTaskSaved(i)
  \/ \E i \in 1..Len(handlers) : ToggleTaskSaved(i)
  \/ \E i \in 1..Len(handlers) : DeleteTaskServed(i)

SpecV9Lossy == InitSessionOn("V9", TRUE) /\ [][NextLossy]_vars

\* dbService.getAllTasks when the request fails: catch { return []; }
getAllTasksFailed == <<>>

\* the V9 session left to itself on a network where every request can fail:
\* no user event, the clock stands still, the store has no other writer.  A
\* failed purge request changes the store as little as a served one.
LoadFetchFailed(i) == lossy /\ loadDataFetched(i, getAllTasksFailed)
LoadRefetchFailed(i) == lossy /\ loadDataRefetched(i, getAllTasksFailed)

NextChain ==
  \/ \E i \in 1..Len(loads) : LoadFetched(i)
  \/ \E i \in 1..Len(loads) : LoadFetchFailed(i)
  \/ \E i \in 1..Len(loads) : PurgeServed(i)
  \/ \E i \in 1..Len(loads) : LoadRefetched(i)
  \/ \E i \in 1..Len(loads) : LoadRefetchFailed(i)

\* a pending request is answered or fails in the end
SpecV9Chain == InitSessionOn("V9", TRUE) /\ [][NextChain]_vars /\ WF_vars(NextChain)

\* the V10 session with toggles only, where a second toggle can be clicked while
\* the save of the first is in flight (within one day: the clock stands still)
CanToggle ==
  /\ version # "none"
  /\ ~isLoading
  /\ events < MaxToggles
  /\ Len(handlers) < MaxToggles

ToggleTaskRace(k) == CanToggle /\ toggleTask(k)

NextToggles ==
  \/ \E i \in 1..Len(loads) : LoadFetched(i)
  \/ \E i \in 1..Len(loads) : PurgeServed(i)
  \/ \E i \in 1..Len(loads) : LoadRefetched(i)
  \/ \E k \in 1..Len(tasks) : ToggleTaskRace(k)
  \/ \E i \in 1..Len(handlers) : ToggleTaskSaved(i)

SpecToggles == InitSession("V10") /\ [][NextToggles]_vars

\* the V10 session of user u1 on a store that also holds a record of user u2,
\* with deletes only (within one day: the clock stands still)
OtherUsersRecords(n) ==
  {<<>>} \cup {<<Task(uuid(n + 1), "u2", t, StartDay, c, t = "Meditate")>> :
                 t \in Titles, c \in BOOLEAN}

InitShared ==
  /\ history = <<>>
  /\ res = noResult
  /\ epc = "off"
  /\ purgedAt = null
  /\ version = "V10"
  /\ today = StartDay
  /\ joinDate \in {0, today}
  /\ \E s \in InitStores(today) : store \in {s \o o : o \in OtherUsersRecords(Len(s))}
  /\ user \in {[streakCount |-> n, persistenceLog |-> <<>>, lastCompletedDate |-> null] :
                 n \in InitStreaks}
  /\ dbUser = user
  /\ tasks = <<>>
  /\ allHistoryTasks = <<>>
  /\ isLoading = TRUE
  /\ lastCheckedDate = today
  /\ loads = <<newLoad(user, [day |-> StartDay, ev |-> 0, purges |-> 0])>>
  /\ handlers = <<>>
  /\ nextId = Len(store)
  /\ events = 0
  /\ lastLoad = noLoad
  /\ lastSync = noSync
  /\ lossy = FALSE
  /\ lastWrite = noWrite
  /\ mountUser = noUser

NextShared ==
  \/ \E i \in 1..Len(loads) : LoadFetched(i)
  \/ \E i \in 1..Len(loads) : PurgeServed(i)
  \/ \E i \in 1..Len(loads) : LoadRefetched(i)
  \/ \E k \in 1..Len(tasks) : DeleteVirtualTask(k)
  \/ \E k \in 1..Len(tasks) : DeleteTaskStart(k)
  \/ \E i \in 1..Len(handlers) : DeleteTaskServed(i)

SpecShared == InitShared /\ [][NextShared]_vars

(***************************************************************************)
(* SpecV13: the log-based dashboard (Dashboard.tsx, "V13: Zero-Gap         *)
(* Permadeath").  The user document holds the task definitions, the ids    *)
(* completed today and the persistence log; every handler saves the whole  *)
(* document.  handlers holds the calls that await dbService.saveUser.      *)
(***************************************************************************)
\* a registered user before the first visit (User.js defaults)
newUser ==
  [taskDefinitions |-> <<>>, completedToday |-> <<>>, persistenceLog |-> <<>>,
   lastActiveDate |-> null, streakCount |-> 0]

\* Array.prototype.includes
includes(s, x) == \E i \in 1..Len(s) : s[i] = x
\* Array.prototype.sort on date keys
sortDates(s) == SortSeq(s, LAMBDA a, b : a < b)
\* safeTaskDefinitions.every(def => completed.includes(def.id)), length > 0
allDone(defs, completed) ==
  Len(defs) > 0 /\ \A i \in 1..Len(defs) : includes(completed, defs[i])

\* performSequenceValidation(currentUser) down to if (needsUpdate)
performSequenceValidation(currentUser, todayStr) ==
  LET yesterdayStr == todayStr - 1
      safeLog == sortDates(currentUser.persistenceLog)
      safeTaskDefs == currentUser.taskDefinitions
      lastActive == currentUser.lastActiveDate
      dayTransition == lastActive # Some(todayStr)
      afterTransition ==
        IF dayTransition
        THEN [currentUser EXCEPT !.lastActiveDate = Some(todayStr), !.completedToday = <<>>]
        ELSE currentUser
      breach ==
        IF Len(safeTaskDefs) > 0 /\ Len(safeLog) > 0
        THEN LET lastEntry == safeLog[Len(safeLog)]
                 streakIsBroken == lastEntry # todayStr /\ lastEntry # yesterdayStr
                 wasActiveYesterday == lastActive = Some(yesterdayStr)
                 finishedYesterday == includes(safeLog, yesterdayStr)
                 failedToFinishYesterday == wasActiveYesterday /\ ~finishedYesterday
             IN  streakIsBroken \/ failedToFinishYesterday
        ELSE FALSE
  IN  [needsUpdate |-> dayTransition \/ breach,
       updatedUser |-> IF breach
                       THEN [afterTransition EXCEPT !.persistenceLog = <<>>, !.streakCount = 0]
                       ELSE afterTransition]

\* toggleTask(taskId) down to the save
toggledUser(u, taskId, td) ==
  LET isCompleted == includes(u.completedToday, taskId)
      newCompletedToday == IF isCompleted
                           THEN SelectSeq(u.completedToday, LAMBDA id : id # taskId)
                           ELSE Append(u.completedToday, taskId)
      withToggle == [u EXCEPT !.completedToday = newCompletedToday]
  IN  IF allDone(u.taskDefinitions, newCompletedToday)
      THEN IF ~includes(u.persistenceLog, td)
           THEN [withToggle EXCEPT !.persistenceLog = sortDates(Append(u.persistenceLog, td)),
                                   !.streakCount = Len(u.persistenceLog) + 1]
           ELSE withToggle
      ELSE IF includes(u.persistenceLog, td)
           THEN [withToggle EXCEPT
                   !.persistenceLog = SelectSeq(u.persistenceLog, LAMBDA d : d # td),
                   !.streakCount = Len(SelectSeq(u.persistenceLog, LAMBDA d : d # td))]
           ELSE withToggle

\* deleteTask(taskId) down to the save
userWithoutTask(u, taskId, td) ==
  LET defs == SelectSeq(u.taskDefinitions, LAMBDA d : d # taskId)
      completed == SelectSeq(u.completedToday, LAMBDA id : id # taskId)
      log == IF allDone(defs, completed) /\ ~includes(u.persistenceLog, td)
             THEN sortDates(Append(u.persistenceLog, td))
             ELSE IF ~allDone(defs, completed) /\ includes(u.persistenceLog, td)
                  THEN SelectSeq(u.persistenceLog, LAMBDA d : d # td)
                  ELSE u.persistenceLog
  IN  [u EXCEPT !.taskDefinitions = defs, !.completedToday = completed,
                !.persistenceLog = log, !.streakCount = Len(log)]

\* addTask down to the save
userWithTask(u, id) == [u EXCEPT !.taskDefinitions = Append(@, id)]

InitV13 ==
  /\ history = <<>>
  /\ res = noResult
  /\ epc = "mount"
  /\ purgedAt = null
  /\ version = "V13"
  /\ today = 0
  /\ joinDate = 0
  /\ store = <<>>
  /\ user = newUser
  /\ dbUser = user
  /\ mountUser = user
  /\ tasks = <<>>
  /\ allHistoryTasks = <<>>
  /\ isLoading = FALSE
  /\ lastCheckedDate = 0
  /\ loads = <<>>
  /\ handlers = <<>>
  /\ nextId = 0
  /\ events = 0
  /\ lastLoad = noLoad
  /\ lastSync = noSync
  /\ lossy \in BOOLEAN
  /\ lastWrite = noWrite

CanCall == version = "V13" /\ Len(handlers) < MaxHandlers

\* a call of performSequenceValidation, addTask, toggleTask or deleteTask that
\* has reached its await
newCall(kind, source, needsUpdate, updated) ==
  [kind |-> kind, source |-> source, needsUpdate |-> needsUpdate,
   updatedUser |-> updated, day |-> today, before |-> user]

\* the effect runs after the mount: performSequenceValidation(user)
ValidationAtMount ==
  /\ CanCall
  /\ epc = "mount"
  /\ LET v == performSequenceValidation(mountUser, today)
     IN  handlers' = Append(handlers, newCall("validate", "mount", v.needsUpdate, v.updatedUser))
  /\ epc' = "mounted"
  /\ UNCHANGED <<history, res, purgedAt, today, joinDate, version, store, dbUser, user,
                 mountUser, tasks, allHistoryTasks, isLoading, lastCheckedDate, loads,
                 nextId, events, lastLoad, lastSync, lossy, lastWrite>>

\* the 60 s timer, the focus listener or the visibilitychange listener of that
\* effect: performSequenceValidation(user) with the user of the effect's render
ValidationByListener(source) ==
  /\ CanCall
  /\ epc = "validated"
  /\ LET v == performSequenceValidation(mountUser, today)
     IN  handlers' = Append(handlers, newCall("validate", source, v.needsUpdate, v.updatedUser))
  /\ UNCHANGED <<evalVars, today, joinDate, version, store, dbUser, user,
                 mountUser, tasks, allHistoryTasks, isLoading, lastCheckedDate, loads,
                 nextId, events, lastLoad, lastSync, lossy, lastWrite>>

\* performSequenceValidation from if (needsUpdate) on
ValidationDone(i) ==
  /\ handlers[i].kind = "validate"
  /\ IF handlers[i].needsUpdate
     THEN \E ok \in Outcomes :
            /\ dbUser' = IF ok THEN saveUser(dbUser, handlers[i].updatedUser) ELSE dbUser
            /\ user' = onUpdateUser(handlers[i].updatedUser)
     ELSE UNCHANGED <<dbUser, user>>
  /\ handlers' = removeAt(handlers, i)
  /\ epc' = IF handlers[i].source = "mount" THEN "validated" ELSE epc
  /\ UNCHANGED <<history, res, purgedAt, today, joinDate, version, store,
                 mountUser, tasks, allHistoryTasks, isLoading, lastCheckedDate, loads,
                 nextId, events, lastLoad, lastSync, lossy, lastWrite>>

CanClickV13 == CanCall /\ epc = "validated" /\ events < MaxClicks

AddTaskV13 ==
  /\ CanClickV13
  /\ nextId < MaxDefs
  /\ handlers' = Append(handlers, newCall("add", "user", TRUE, userWithTask(user, nextId + 1)))
  /\ nextId' = nextId + 1
  /\ events' = events + 1
  /\ UNCHANGED <<evalVars, today, joinDate, version, store, dbUser, user,
                 mountUser, tasks, allHistoryTasks, isLoading, lastCheckedDate, loads,
                 lastLoad, lastSync, lossy, lastWrite>>

ToggleTaskV13(k) ==
  /\ CanClickV13
  /\ k \in 1..Len(user.taskDefinitions)
  /\ handlers' = Append(handlers, newCall("toggle", "user", TRUE,
                                          toggledUser(user, user.taskDefinitions[k], today)))
  /\ events' = events + 1
  /\ UNCHANGED <<evalVars, today, joinDate, version, store, dbUser, user,
                 mountUser, tasks, allHistoryTasks, isLoading, lastCheckedDate, loads,
                 nextId, lastLoad, lastSync, lossy, lastWrite>>

DeleteTaskV13(k) ==
  /\ CanClickV13
  /\ k \in 1..Len(user.taskDefinitions)
  /\ handlers' = Append(handlers, newCall("delete", "user", TRUE,
                                          userWithoutTask(user, user.taskDefinitions[k], today)))
  /\ events' = events + 1
  /\ UNCHANGED <<evalVars, today, joinDate, version, store, dbUser, user,
                 mountUser, tasks, allHistoryTasks, isLoading, lastCheckedDate, loads,
                 nextId, lastLoad, lastSync, lossy, lastWrite>>

\* addTask, toggleTask, deleteTask after await dbService.saveUser: on success
\* onUpdateUser(saved); in the catch only toggleTask calls onUpdateUser
UserSaved(i) ==
  /\ handlers[i].kind \in {"add", "toggle", "delete"}
  /\ \E ok \in Outcomes :
       /\ dbUser' = IF ok THEN saveUser(dbUser, handlers[i].updatedUser) ELSE dbUser
       /\ user' = IF ok \/ handlers[i].kind = "toggle"
                  THEN onUpdateUser(handlers[i].updatedUser) ELSE user
  /\ handlers' = removeAt(handlers, i)
  /\ UNCHANGED <<evalVars, today, joinDate, version, store,
                 mountUser, tasks, allHistoryTasks, isLoading, lastCheckedDate, loads,
                 nextId, events, lastLoad, lastSync, lossy, lastWrite>>

\* the page is loaded again: App.checkSession sets the user from the session
\* and the Dashboard mounts with it
Reload ==
  /\ version = "V13"
  /\ epc = "validated"
  /\ handlers = <<>>
  /\ user' = dbUser
  /\ mountUser' = dbUser
  /\ epc' = "mount"
  /\ UNCHANGED <<history, res, purgedAt, today, joinDate, version, store, dbUser,
                 tasks, allHistoryTasks, isLoading, lastCheckedDate, loads, handlers,
                 nextId, events, lastLoad, lastSync, lossy, lastWrite>>

NextV13 ==
  \/ ValidationAtMount
  \/ \E source \in {"timer", "focus", "visibilitychange"} : ValidationByListener(source)
  \/ \E i \in 1..Len(handlers) : ValidationDone(i)
  \/ AddTaskV13
  \/ \E k \in 1..MaxDefs : ToggleTaskV13(k)
  \/ \E k \in 1..MaxDefs : DeleteTaskV13(k)
  \/ \E i \in 1..Len(handlers) : UserSaved(i)
  \/ DateChange
  \/ Reload

SpecV13 == InitV13 /\ [][NextV13]_vars

(***************************************************************************)
(* Vocabulary of the claims about the evaluators.                          *)
(***************************************************************************)
Dates(h) == {h[i].date : i \in 1..Len(h)}
RecordsOn(h, d) == {i \in 1..Len(h) : h[i].date = d}
Perfect(h, d) ==
  /\ RecordsOn(h, d) # {}
  /\ \A i \in RecordsOn(h, d) : h[i].completed = TRUE
HasIncomplete(h, d) == \E i \in RecordsOn(h, d) : h[i].completed = FALSE

RECURSIVE PerfectRun(_, _)
PerfectRun(h, d) == IF Perfect(h, d) THEN 1 + PerfectRun(h, d - 1) ELSE 0

AllOnOrAfterJoin == \A d \in Dates(history) : d >= joinDate

\* C1: on a history whose records are all dated on or after joinDate, the V9
\* evaluator's streak is the length of the unbroken run of perfect days that
\* ends at today when today is perfect and at yesterday when it is not.
C1_StreakIsPerfectRun ==
  (epc = "v9" /\ AllOnOrAfterJoin) =>
    res.streak = PerfectRun(history, IF Perfect(history, today) THEN today ELSE today - 1)

C1_Witness ==
  /\ epc = "v9"
  /\ AllOnOrAfterJoin
  /\ ~Perfect(history, today)
  /\ RecordsOn(history, today) # {}
  /\ res.streak = 2

\* C2: the V9 evaluator never returns a day without records as the breach
\* date: a breach date has at least one record with completed = false.
C2_BreachHasIncompleteRecord ==
  (epc = "v9" /\ res.failureDate # null) =>
    HasIncomplete(history, res.failureDate[1])

\* C7: after the purge for breach date B has removed every record dated after
\* B, the V9 evaluator reports no breach date d with B < d <= today.
C7_PurgeClosure ==
  (epc = "rerun" /\ res.failureDate # null) =>
    ~(purgedAt[1] < res.failureDate[1] /\ res.failureDate[1] <= today)

MostRecentIsBreach(b) ==
  /\ b \in Dates(history)
  /\ \A d \in Dates(history) : d <= b
  /\ HasIncomplete(history, b)
  /\ b >= joinDate
  /\ today > b

\* C8: when the most recent records are on day B >= joinDate and include an
\* incomplete one, the V10 evaluator reports failureDate = B for every today
\* later than B, however many record-free days lie between.
C8_BreachDaySurvives ==
  epc = "v10" =>
    \A b \in Days : MostRecentIsBreach(b) =>
      /\ res.failureDate = Some(b)
      /\ res.streak = 0

C8_Witness ==
  /\ epc = "v10"
  /\ \E b \in Days : MostRecentIsBreach(b) /\ today >= b + 2 /\ Perfect(history, b - 1)
  /\ res.failureDate # null

(***************************************************************************)
(* Vocabulary of the claims about a session.                               *)
(***************************************************************************)
\* no load, task save, delete, purge or user save in flight
Quiescent ==
  /\ version # "none"
  /\ loads = <<>>
  /\ handlers = <<>>
  /\ ~isLoading
  /\ today = lastCheckedDate

\* C3: in every quiescent state of a V9 session the local user.streakCount is
\* the streak the evaluator returns for the user's records in the store.
C3_StreakCountIsReproducible ==
  (version = "V9" /\ Quiescent) =>
    user.streakCount =
      analyzeStreakAndFailuresV9(getAllTasks(store, "u1"), today, joinDate).streak

\* the step in which the backend serves load i's purge request
PurgeIsServed(i) ==
  /\ i \in 1..Len(loads)
  /\ loads[i].pc = "purge"
  /\ Len(loads') >= i
  /\ loads'[i].pc = "fetch2"

\* C4: once the backend has served purgeTasksAfterDate(userId, B), the store
\* holds no record of userId dated after B, and every other record is as it was.
C4_PurgeDeletesLaterRecords ==
  [][\A i \in 1..MaxLoads : PurgeIsServed(i) =>
        /\ \A k \in 1..Len(store') :
             ~(store'[k].userId = "u1" /\ store'[k].date > loads[i].purgeArg[1])
        /\ \A k \in 1..Len(store) :
             (store[k].userId # "u1" \/ store[k].date <= loads[i].purgeArg[1])
               => \E m \in 1..Len(store') : store'[m] = store[k]]_vars

\* C5: the V10 loadData calls purgeTasksAfterDate exactly when the evaluator
\* returned a failureDate for the fetched history, and with that date.
C5_PurgeIffBreach ==
  version = "V10" =>
    /\ (lastLoad.purgeArg # null) <=> (lastLoad.failureDate # null)
    /\ lastLoad.purgeArg = lastLoad.failureDate
    /\ \A i \in 1..Len(loads) :
         /\ loads[i].pc \in {"purge", "fetch2"} =>
              (loads[i].res.failureDate # null /\ loads[i].purgeArg = loads[i].res.failureDate)
         /\ loads[i].pc = "fetch1" => loads[i].purgeArg = null

C5_Witness ==
  /\ version = "V10"
  /\ lastLoad.purgeArg = Some(StartDay - 1)
  /\ \E i \in 1..Len(loads) : loads[i].pc = "fetch1"

\* C6: after a purge the V9 loadData hands syncStreakToCloud the evaluator's
\* result on the re-fetched history (stated for the loads during which the date
\* did not change, so that both evaluations are for the same today).
C6_HandsPostPurgeStreak ==
  (version = "V9" /\ lastLoad.purgeArg # null /\ lastLoad.sameDay) =>
    lastLoad.handed = lastLoad.fresh

\* C9: one triggering event of a V10 session causes at most one purge: a
\* loadData that runs for an event, with no user event and no date change since,
\* has at most one purge behind it.
C9_AtMostOnePurgePerEvent ==
  version = "V10" =>
    \A i \in 1..Len(loads) :
      (loads[i].trigger.day = today /\ loads[i].trigger.ev = events) =>
        loads[i].trigger.purges <= 1

\* C10: when the streak passed to syncStreakToCloud equals user.streakCount,
\* onUpdateUser and saveUser are not called and the aggregate is left as it is.
\* (lastSync' is the call made in the step, seenCount the user.streakCount the
\* called closure reads; a step that makes no call changes neither user.)
C10_NoOpSync ==
  [][(version = "V9" /\ lastSync'.newCount = lastSync'.seenCount) =>
       (user' = user /\ dbUser' = dbUser)]_vars

C10_Witness ==
  /\ version = "V9"
  /\ lastSync.newCount = lastSync.seenCount
  /\ lastSync.newCount = 2
  /\ ~lastSync.wrote

(***************************************************************************)
(* Vocabulary of the claims about failed writes.                           *)
(***************************************************************************)
SaveUserFailed == "saveUser" \in lastWrite.failed

\* a step in which syncStreakToCloud is called (a repeated call that fails as
\* the one before it did leaves both records as they are)
SyncIsCalled == <<lastSync', lastWrite'>> # <<lastSync, lastWrite>>

\* C11: when saveUser fails inside syncStreakToCloud the local user keeps the
\* new streakCount and lastCompletedDate, and the call made one saveUser request.
C11_KeepsOptimisticUpdate ==
  (version = "V9" /\ SaveUserFailed) =>
    /\ lastSync.wrote
    /\ lastSync.saves = 1
    /\ user.streakCount = lastSync.newCount
    /\ lastSync.newCount > 0 => user.lastCompletedDate = Some(today)

C11_Witness ==
  /\ version = "V9"
  /\ SaveUserFailed
  /\ user.streakCount = 1
  /\ user.lastCompletedDate = Some(today)
  /\ dbUser.streakCount = 0
  /\ dbUser.lastCompletedDate = null

\* C12: every failed saveUser or saveTask request of the session has a toast
\* shown by the step that made it.
C12_FailedWriteShowsToast ==
  (version = "V9" /\ lastWrite.failed # {}) => lastWrite.toast # noToast

\* C13: after a saveUser of a streak value has failed, the next call of
\* syncStreakToCloud with that same value issues the saveUser again.
C13_FailedWriteIsRetried ==
  [][(version = "V9" /\ SaveUserFailed /\ SyncIsCalled
        /\ lastSync'.newCount = lastSync.newCount) =>
       lastSync'.wrote]_vars

(***************************************************************************)
(* Vocabulary of the claims about the history a handler evaluates.         *)
(***************************************************************************)
Records(h) == {h[i] : i \in 1..Len(h)}

\* the step in which addTask, toggleTask or deleteTask runs to its end: the
\* history it hands to the evaluator is the one it sets as allHistoryTasks
HandlerEnds ==
  \/ Len(handlers') < Len(handlers)
  \/ events' # events /\ handlers' = handlers

\* C14: the history a V9 handler evaluates is a history of the store during
\* that event: the user's records as the store holds them when the handler's
\* request is served, before or after it.
C14_EvaluatesFetchedHistory ==
  [][(version = "V9" /\ HandlerEnds) =>
       \/ Records(allHistoryTasks') = Records(getAllTasks(store, "u1"))
       \/ Records(allHistoryTasks') = Records(getAllTasks(store', "u1"))]_vars

(***************************************************************************)
(* Vocabulary of the claims about the materializer.                        *)
(***************************************************************************)
Materialized == epc \in {"once", "twice"}

\* the history records dated today, in history order
TodayRecords == SelectSeq(history, LAMBDA t : t.date = today)

\* the positions of the task list behind the records dated today
VirtualPositions == (Len(TodayRecords) + 1)..Len(tasks)

\* the recurring titles that have no record dated today
MissingRitualTitles ==
  {history[i].title : i \in {j \in 1..Len(history) : history[j].isRecurring}}
    \ {TodayRecords[i].title : i \in 1..Len(TodayRecords)}

\* the history positions of the recurring records of a title
RitualsOf(title) ==
  {i \in 1..Len(history) : history[i].isRecurring /\ history[i].title = title}

\* the template of a title: greatest date, first in the history among equals
TemplateOf(title) ==
  CHOOSE i \in RitualsOf(title) :
    \A j \in RitualsOf(title) :
      \/ history[j].date < history[i].date
      \/ history[j].date = history[i].date /\ i <= j

\* C15: the task list is the records dated today in history order, followed by
\* exactly one virtual record for each recurring title without a record dated
\* today, with completed = false, date = today, the id built from a template's
\* id and today, and the template's title and reminderTime.
C15_TaskListIsTodayThenVirtuals ==
  Materialized =>
    /\ Len(tasks) >= Len(TodayRecords)
    /\ SubSeq(tasks, 1, Len(TodayRecords)) = TodayRecords
    /\ \A k \in VirtualPositions :
         /\ tasks[k].title \in MissingRitualTitles
         /\ tasks[k].completed = FALSE
         /\ tasks[k].date = today
         /\ \E i \in RitualsOf(tasks[k].title) :
              /\ tasks[k].id = <<"virtual", history[i].id[2], today>>
              /\ tasks[k].reminderTime = history[i].reminderTime
    /\ \A title \in MissingRitualTitles :
         Cardinality({k \in VirtualPositions : tasks[k].title = title}) = 1

C15_Witness ==
  /\ Materialized
  /\ Len(TodayRecords) = 1
  /\ Len(tasks) = 2
  /\ tasks[2].reminderTime # noReminder

\* C16: the virtual record of a title is built from the recurring record of
\* that title with the greatest date, the first in the history among several
\* of that date.
C16_TemplateIsLatestFirst ==
  Materialized =>
    \A k \in VirtualPositions :
      /\ tasks[k].id[2] = history[TemplateOf(tasks[k].title)].id[2]
      /\ tasks[k].reminderTime = history[TemplateOf(tasks[k].title)].reminderTime

C16_Witness ==
  /\ Materialized
  /\ \E k \in VirtualPositions :
       \E i, j \in RitualsOf(tasks[k].title) :
         /\ i < j
         /\ history[i].date = history[j].date
         /\ history[i].reminderTime # history[j].reminderTime
         /\ i = TemplateOf(tasks[k].title)
         /\ \E m \in RitualsOf(tasks[k].title) : history[m].date < history[i].date

VirtualRecords(ts) == {ts[k] : k \in {m \in 1..Len(ts) : isVirtualId(ts[m].id)}}

PromotionStarts ==
  /\ Len(handlers') = Len(handlers) + 1
  /\ handlers'[Len(handlers')].kind = "toggle"
  /\ handlers'[Len(handlers')].isVirtual

Promoted == handlers'[Len(handlers')].task

\* the step in which the store serves the upsert of handler i
UpsertIsServed(i) ==
  /\ i \in 1..Len(handlers)
  /\ handlers[i].kind \in {"add", "toggle"}
  /\ handlers' = removeAt(handlers, i)

\* the step in which deleteTask runs on a virtual record
VirtualIsDeleted == events' # events /\ handlers' = handlers

\* C18: no virtual id reaches the store: every stored id is a generated id, the
\* toggle of a virtual record upserts a record with a fresh generated id and
\* date = today, and the delete of a virtual record issues no store request.
C18_VirtualNeverStored ==
  [][version = "V9" =>
       /\ \A k \in 1..Len(store') : store'[k].id[1] = "uuid"
       /\ PromotionStarts =>
            /\ Promoted.id[1] = "uuid"
            /\ ~hasId(store, Promoted.id)
            /\ \A k \in 1..Len(handlers) : handlers[k].task.id # Promoted.id
            /\ Promoted.date = today
       /\ \A i \in 1..MaxHandlers :
            (UpsertIsServed(i) /\ handlers[i].isVirtual) =>
              store' = Append(store, handlers[i].task)
       /\ VirtualIsDeleted => store' = store]_vars

\* C19: the store holds at most one record for each (userId, date, title).
C19_OneRecordPerDayAndTitle ==
  \A j, k \in 1..Len(store) :
     (/\ store[j].userId = store[k].userId
      /\ store[j].date = store[k].date
      /\ store[j].title = store[k].title) => j = k

\* the stored records with the given id
StoredWithId(st, id) == {k \in 1..Len(st) : st[k].id = id}

\* C20: toggles of one real task id whose upserts are served in either order
\* leave exactly one stored record with that id, and its completed value is the
\* one of the upsert served last: every served upsert of a toggle leaves one
\* record with its id, carrying its completed value, and no other step touches
\* the store.
C20_LastUpsertWins ==
  [][
      /\ \A i \in 1..Len(handlers) :
          (UpsertIsServed(i) /\ handlers[i].kind = "toggle") =>
            /\ Cardinality(StoredWithId(store', handlers[i].task.id)) = 1
            /\ \A k \in StoredWithId(store', handlers[i].task.id) :
                  store'[k].completed = handlers[i].task.completed
            /\ \A k \in 1..Len(store) :
                  store[k].id # handlers[i].task.id => store'[k] = store[k]
      /\ Len(handlers') >= Len(handlers) => store' = store]_vars

\* two toggles of a stored record were served in the reverse order of the
\* clicks: the list shows the second toggle, the store holds the first
C20_Witness ==
  /\ events = 2
  /\ handlers = <<>>
  /\ \E j \in 1..Len(tasks) : \E k \in 1..Len(store) :
        /\ tasks[j].id = store[k].id
        /\ tasks[j].completed # store[k].completed

\* C21: deleting a recurring objective of user u1 leaves every record of another
\* user in the store, also one with the same title and isRecurring = TRUE.
C21_DeleteKeepsOtherUsers ==
  [][\A k \in 1..Len(store) :
        store[k].userId # "u1" => \E j \in 1..Len(store') : store'[j] = store[k]]_vars

\* C22: the backward walk of the V10 and of the V9 evaluator runs its loop body
\* at most 3650 times, for every history and every joinDate.
C22_WalkIsBounded == res.iterations <= SafetyLimit

\* the loops, run to their end, return what the evaluators return
WalkAgrees ==
  /\ epc = "returnedV9" =>
       /\ res.streak = analyzeStreakAndFailuresV9(history, today, joinDate).streak
       /\ res.failureDate = analyzeStreakAndFailuresV9(history, today, joinDate).failureDate
  /\ (epc = "returnedV10" /\ joinDate # emptyJoinDate) =>
       /\ res.streak = analyzeStreakAndFailuresV10(history, today, joinDate).streak
       /\ res.failureDate = analyzeStreakAndFailuresV10(history, today, joinDate).failureDate
       /\ res.newLog = analyzeStreakAndFailuresV10(history, today, joinDate).newLog

\* C23: a breach date B reported by the V9 evaluator satisfies
\* joinDate <= B < today.
C23_BreachBetweenJoinAndToday ==
  (epc = "v9" /\ res.failureDate # null) =>
    (joinDate <= res.failureDate[1] /\ res.failureDate[1] < today)

\* the step in which the interval's callback calls loadData: a pipeline is
\* added to the ones in flight and neither a handler nor a pipeline moves
TimerStartsPipeline ==
  /\ Len(loads') = Len(loads) + 1
  /\ \A i \in 1..Len(loads) : loads'[i] = loads[i]
  /\ handlers' = handlers
  /\ events' = events

\* C24: a timer tick starts loadData exactly when the clock's date key differs
\* from lastCheckedDate, and it sets lastCheckedDate to the new key, so that
\* the next pipeline of the timer needs the next change of date; nothing else
\* moves lastCheckedDate.
C24_RolloverStartsOnePipeline ==
  [][
      /\ TimerStartsPipeline =>
           /\ today # lastCheckedDate
           /\ lastCheckedDate' = today'
           /\ loads'[Len(loads')] = newLoad(user, newTrigger)
           /\ isLoading' = TRUE
      /\ lastCheckedDate' # lastCheckedDate => TimerStartsPipeline]_vars

\* the timer has started the pipeline of the new day
C24_Witness ==
  /\ today = StartDay + 1
  /\ lastCheckedDate = today
  /\ \E i \in 1..Len(loads) : loads[i].trigger.day = today /\ loads[i].pc = "fetch1"

\* the histories that hold the records of h in another order
Reordered(h) == {[i \in 1..Len(h) |-> h[f[i]]] : f \in Permutations(1..Len(h))}

\* C25: a run of the evaluator on the same history, today and joinDate returns
\* the same streak and breach date again, and so does a run on the same
\* records in any other order.
C25_EvaluatorIsDeterministic ==
  /\ epc = "v9" =>
       \A p \in Reordered(history) : analyzeStreakAndFailuresV9(p, today, joinDate) = res
  /\ epc = "v10" =>
       \A p \in Reordered(history) : analyzeStreakAndFailuresV10(p, today, joinDate) = res

\* a day of the history has a completed and an incomplete record, and the
\* evaluator has looked at that day
C25_Witness ==
  /\ epc = "v9"
  /\ Len(history) = MaxLen
  /\ history[1].date = today /\ history[2].date = today
  /\ history[1].completed /\ ~history[2].completed
  /\ Perfect(history, today - 1)
  /\ res.failureDate # null

\* d is the most recent day with joinDate <= d < today that has a record and
\* not all of its records completed
MostRecentFailedDay(d) ==
  /\ joinDate <= d /\ d < today
  /\ HasIncomplete(history, d)
  /\ \A e \in Dates(history) : (d < e /\ e < today /\ joinDate <= e) => ~HasIncomplete(history, e)

\* C28: the V10 evaluator returns streak 0, an empty newLog and
\* failureDate = d whenever d is the most recent day with
\* joinDate <= d < today that has a record and not all records completed.
C28_NuclearReset ==
  epc = "v10" =>
    \A d \in Days : MostRecentFailedDay(d) =>
      /\ res.streak = 0
      /\ res.newLog = <<>>
      /\ res.failureDate = Some(d)

\* the failed day is followed by a day without records and by a perfect day
C28_Witness ==
  /\ epc = "v10"
  /\ today = MaxDay
  /\ MostRecentFailedDay(0)
  /\ Perfect(history, 1)
  /\ RecordsOn(history, 2) = {}
  /\ Perfect(history, today)
  /\ res.failureDate = Some(0)

(***************************************************************************)
(* Vocabulary of the claims about the log-based dashboard.                 *)
(***************************************************************************)
\* the step in which call i ends
CallEnds(i) == i \in 1..Len(handlers) /\ handlers' = removeAt(handlers, i)

\* a gap-free run of consecutive calendar dates
GapFree(log) == \A j \in 1..(Len(log) - 1) : log[j + 1] = log[j] + 1

\* C26: once performSequenceValidation has run to its end, at the end of it
\* and of every later addTask, toggleTask and deleteTask, persistenceLog is
\* empty or a gap-free run of consecutive dates that ends today or yesterday.
C26_LogIsGapFreeRun ==
  [][\A i \in 1..Len(handlers) :
        (version = "V13" /\ CallEnds(i) /\ epc' = "validated") =>
          \/ user'.persistenceLog = <<>>
          \/ /\ GapFree(user'.persistenceLog)
             /\ user'.persistenceLog[Len(user'.persistenceLog)]
                  \in {handlers[i].day, handlers[i].day - 1}]_vars

\* C27: at the end of every addTask, toggleTask and deleteTask, today is in
\* persistenceLog exactly when there is a task definition and the id of every
\* task definition is in completedToday.
C27_TodayLoggedIffAllDone ==
  [][\A i \in 1..Len(handlers) :
        (version = "V13" /\ CallEnds(i) /\ handlers[i].kind \in {"add", "toggle", "delete"}) =>
          (includes(user'.persistenceLog, handlers[i].day)
             <=> allDone(user'.taskDefinitions, user'.completedToday))]_vars

\* C29: what a performSequenceValidation run of the timer, the focus listener
\* or the visibility listener saves is the validation of the user state of
\* that moment: it holds every change the handlers made since the mount.
C29_ValidationSavesCurrentUser ==
  [][\A i \in 1..Len(handlers) :
        (version = "V13" /\ CallEnds(i) /\ handlers[i].kind = "validate"
           /\ handlers[i].source # "mount" /\ handlers[i].needsUpdate) =>
          /\ user'.taskDefinitions = handlers[i].before.taskDefinitions
          /\ user' = performSequenceValidation(handlers[i].before, handlers[i].day).updatedUser]_vars

\* C30: left to itself on a fixed date, the V9 session's chain of loadData runs
\* ends: it reaches a state with isLoading = FALSE and no loadData, purge or
\* saveUser call in flight, and stays there.
C30_LoadChainEnds == <>[](isLoading = FALSE /\ loads = <<>>)
====
